---- MODULE Spec2Model ----
(***************************************************************************)
(* Testingdata.py: a linear batch script.  It globs the Google Trends      *)
(* exports, loads and cleans each with load_trends_csv, inner-joins them   *)
(* on "Time", checks monthly continuity, writes the wide table, melts it   *)
(* to long format and writes that too.                                     *)
(*                                                                         *)
(* Strings are sequences of one-character strings.  A data frame is a      *)
(* record [cols, rows]: cols a sequence of column names, rows a sequence   *)
(* of rows, each a sequence of cells aligned with cols.  A cell is a       *)
(* record [k, v]; raw CSV cells have kind "date" (text "YYYY-MM-DD", v =   *)
(* 100 * month + day, month counted from an epoch), "num" (a numeric       *)
(* literal), "text" (any other non-empty text) or "empty"; parsed cells    *)
(* have kind "ts" (v = 31 * month + day - 1, which orders as dates do),    *)
(* "nat", "num" or "nan".  pandas is modelled as of version 2.x.           *)
(***************************************************************************)
EXTENDS Integers, Sequences, FiniteSets, TLC

VARIABLES pc, n, dfs, merged, j, warned, missing, shown, ellipsis,
          out_wide, long_df, out_long, error, raw

vars == <<pc, n, dfs, merged, j, warned, missing, shown, ellipsis,
          out_wide, long_df, out_long, error, raw>>

(* ------------------------------ bounds -------------------------------- *)
MaxFiles == 4
MaxRows == 3
TailRows == 2

(* ------------------------- program constants -------------------------- *)
MinFiles == 4
MissingShown == 10
DaySlots == 31

(* ------------------------------ strings ------------------------------- *)
Lowers == <<"a", "b", "e", "i", "m", "n", "r", "s", "t">>
Uppers == <<"A", "B", "E", "I", "M", "N", "R", "S", "T">>

Range(s) == {s[i] : i \in 1..Len(s)}

IsSpace(c) == c = " "
IsLower(c) == c \in Range(Lowers)
IsUpper(c) == c \in Range(Uppers)
IsCased(c) == IsLower(c) \/ IsUpper(c)

ToUpper(c) == IF IsLower(c) THEN Uppers[CHOOSE i \in 1..Len(Lowers) : Lowers[i] = c] ELSE c
ToLower(c) == IF IsUpper(c) THEN Lowers[CHOOSE i \in 1..Len(Uppers) : Uppers[i] = c] ELSE c

\* str.strip(): leading and trailing whitespace removed
Strip(s) ==
  LET ns == {i \in 1..Len(s) : ~IsSpace(s[i])}
  IN  IF ns = {} THEN <<>>
      ELSE LET lo == CHOOSE i \in ns : \A k \in ns : i <= k
               hi == CHOOSE i \in ns : \A k \in ns : i >= k
           IN  SubSeq(s, lo, hi)

\* " ".join(s.split()): whitespace runs collapsed to one space, ends trimmed
JoinSplit(s) ==
  LET F[i \in 0..Len(s)] ==
        IF i = 0 THEN <<>>
        ELSE IF ~IsSpace(s[i]) THEN
               IF i > 1 /\ IsSpace(s[i-1]) /\ F[i-1] # <<>>
               THEN F[i-1] \o <<" ", s[i]>>
               ELSE Append(F[i-1], s[i])
             ELSE F[i-1]
  IN  F[Len(s)]

\* str.title(): a cased character is upper-cased unless it follows a cased one
Title(s) ==
  [i \in 1..Len(s) |->
     IF i > 1 /\ IsCased(s[i-1]) THEN ToLower(s[i]) ELSE ToUpper(s[i])]

TimeName == <<"T", "i", "m", "e">>
TrendName == <<"T", "r", "e", "n", "d">>
InterestName == <<"I", "n", "t", "e", "r", "e", "s", "t">>
SuffixX == <<"_", "x">>
SuffixY == <<"_", "y">>

(* --------------------------- frame helpers ---------------------------- *)
Cell(k, v) == [k |-> k, v |-> v]
NaT == Cell("nat", 0)
NaN == Cell("nan", 0)

Frame(cols, rows) == [cols |-> cols, rows |-> rows]
EmptyFrame == Frame(<<>>, <<>>)

\* the rows of a sequence at the indices in K, in their original order
Pick(rows, K) ==
  LET F[i \in 0..Len(rows)] ==
        IF i = 0 THEN <<>>
        ELSE IF i \in K THEN Append(F[i-1], rows[i]) ELSE F[i-1]
  IN  F[Len(rows)]

Positions(cols, name) == {i \in 1..Len(cols) : cols[i] = name}
ColIndex(cols, name) == CHOOSE i \in Positions(cols, name) : \A k \in Positions(cols, name) : i <= k

Column(df, name) == [i \in 1..Len(df.rows) |-> df.rows[i][ColIndex(df.cols, name)]]

(* -------------------------- load_trends_csv --------------------------- *)
\* pd.read_csv: the header row and the data rows as text cells
read_csv(f) == Frame(f.hdr, f.rows)

\* df.columns.str.strip()
StripColumns(df) == Frame([i \in 1..Len(df.cols) |-> Strip(df.cols[i])], df.rows)

\* pd.to_datetime on one entry (errors="raise"): a date text parses, an empty
\* entry is NaT, any other text raises
Parseable(c) == c.k \in {"date", "empty"}
ToDatetime(c) ==
  IF c.k = "date" THEN Cell("ts", DaySlots * (c.v \div 100) + (c.v % 100) - 1) ELSE NaT

\* pd.to_numeric(errors="coerce") on one entry
ToNumeric(c) == IF c.k = "num" THEN Cell("num", c.v) ELSE NaN

\* df[name] = f(df[name]) for the single column called name
MapColumn(df, name, f(_)) ==
  LET t == ColIndex(df.cols, name)
  IN  Frame(df.cols,
            [i \in 1..Len(df.rows) |->
               [k \in 1..Len(df.cols) |-> IF k = t THEN f(df.rows[i][k]) ELSE df.rows[i][k]]])

\* [c for c in df.columns if c != "Time"]
value_cols(df) == SelectSeq(df.cols, LAMBDA c : c # TimeName)

\* " ".join(trend_name.split()).title() of value_col.strip()
trend_name_clean(value_col) == Title(JoinSplit(Strip(value_col)))

\* df.rename(columns={old: new})
Rename(df, old, new) ==
  Frame([i \in 1..Len(df.cols) |-> IF df.cols[i] = old THEN new ELSE df.cols[i]], df.rows)

\* variant: dropna() without subset, which also drops rows missing a value
DropnaAny(df) ==
  Frame(df.cols, Pick(df.rows, {i \in 1..Len(df.rows) :
                                  \A k \in 1..Len(df.cols) : df.rows[i][k].k \notin {"nat", "nan"}}))

\* df.dropna(subset=["Time"])
DropnaTime(df) ==
  LET t == ColIndex(df.cols, TimeName)
  IN  Frame(df.cols, Pick(df.rows, {i \in 1..Len(df.rows) : df.rows[i][t].k # "nat"}))

\* variant: no de-duplication
KeepDuplicates(df) == df

\* df.drop_duplicates(subset=["Time"]): the first row of each Time value is kept
DropDuplicatesTime(df) ==
  LET t == ColIndex(df.cols, TimeName)
  IN  Frame(df.cols,
            Pick(df.rows, {i \in 1..Len(df.rows) :
                             \A k \in 1..(i-1) : df.rows[k][t] # df.rows[i][t]}))

\* df.sort_values("Time").reset_index(drop=True), ascending; rows with equal
\* Time keep their order
SortValuesTime(df) ==
  LET t == ColIndex(df.cols, TimeName)
      m == Len(df.rows)
      rank(i) == 1 + Cardinality({k \in 1..m :
                        \/ df.rows[k][t].v < df.rows[i][t].v
                        \/ df.rows[k][t].v = df.rows[i][t].v /\ k < i})
  IN  Frame(df.cols, [p \in 1..m |-> df.rows[CHOOSE i \in 1..m : rank(i) = p]])

Returned(df) == [ok |-> TRUE, err |-> "", df |-> df]
Raised(e) == [ok |-> FALSE, err |-> e, df |-> EmptyFrame]

\* lines 33-40, once the value column has its clean name
CleanRows(df, name) ==
  SortValuesTime(DropDuplicatesTime(DropnaTime(MapColumn(df, name, ToNumeric))))

load_trends_csv(f) ==
  LET df0 == StripColumns(read_csv(f))
  IN  IF Positions(df0.cols, TimeName) = {} THEN Raised("ValueError: 'Time' column not found")
      ELSE IF Cardinality(Positions(df0.cols, TimeName)) > 1
             \/ \E c \in Range(Column(df0, TimeName)) : ~Parseable(c)
           THEN Raised("ValueError: to_datetime")
      ELSE LET df1 == MapColumn(df0, TimeName, ToDatetime)
               vcs == value_cols(df1)
           IN  IF Len(vcs) # 1 THEN Raised("ValueError: Expected exactly 1 value column")
               ELSE LET name == trend_name_clean(vcs[1])
                        df2  == Rename(df1, vcs[1], name)
                    IN  IF name = TimeName THEN Raised("TypeError: to_numeric")
                        ELSE Returned(CleanRows(df2, name))

(* --------------------- input files of load_trends_csv ------------------ *)
File(hdr, rows) == [hdr |-> hdr, rows |-> rows]
NoFile == File(<<>>, <<>>)

hTime     == <<"T", "i", "m", "e">>
hTimePad  == <<" ", "T", "i", "m", "e">>
hLowTime  == <<"t", "i", "m", "e">>
hA        == <<"a">>
hAPad     == <<" ", "A", " ">>
hB        == <<"b">>
hE        == <<"e">>
hN        == <<"n">>
hTwoWords == <<"b", "A", " ", " ", "e">>
hInterest == <<"i", "n", "t", "e", "r", "e", "s", "t">>

Date(m, d) == Cell("date", 100 * m + d)
Num(v) == Cell("num", v)
Text == Cell("text", 0)
Empty == Cell("empty", 0)

\* a file whose rows are (Time entry, value entry) pairs laid out under hdr:
\* a column whose stripped header is "Time" takes the Time entry
Layout(hdr, pairs) ==
  File(hdr, [i \in 1..Len(pairs) |->
               [k \in 1..Len(hdr) |->
                  IF Strip(hdr[k]) = TimeName THEN pairs[i][1] ELSE pairs[i][2]]])

SeqsUpTo(S, m) == UNION {[1..k -> S] : k \in 0..m}

LoadHeaders == { <<hTime, hA>>, <<hTwoWords, hTimePad>>, <<hA, hB>>, <<hTime>>,
                 <<hTime, hA, hB>>, <<hTime, hLowTime>>, <<hTime, hTimePad>> }
LoadTimeCells == { Date(0, 1), Date(1, 1), Empty, Text }
LoadValueCells == { Num(0), Num(7), Text }
LoadFiles ==
  { Layout(h, p) : h \in LoadHeaders,
                   p \in SeqsUpTo(LoadTimeCells \X LoadValueCells, MaxRows) }

InitLoad ==
  /\ raw \in LoadFiles
  /\ pc = "call" /\ n = 1 /\ dfs = <<>> /\ merged = EmptyFrame /\ j = 0
  /\ warned = FALSE /\ missing = <<>> /\ shown = <<>> /\ ellipsis = FALSE
  /\ out_wide = "absent" /\ long_df = EmptyFrame /\ out_long = "absent" /\ error = ""

\* one call of load_trends_csv on the file raw
LoadOne ==
  /\ pc = "call"
  /\ LET r == load_trends_csv(raw)
     IN  /\ pc' = IF r.ok THEN "returned" ELSE "raised"
         /\ dfs' = IF r.ok THEN <<r.df>> ELSE dfs
         /\ error' = r.err
  /\ UNCHANGED <<n, merged, j, warned, missing, shown, ellipsis, out_wide, long_df, out_long, raw>>

NextLoad == LoadOne
SpecLoad == InitLoad /\ [][NextLoad]_vars

(* ------------------------ merge on Time (inner) ----------------------- *)
\* the labels pandas gives the columns of left.merge(right, on="Time"):
\* a name on both sides takes the suffixes _x (left) and _y (right)
RightKeep(right) == {k \in 1..Len(right.cols) : right.cols[k] # TimeName}
Overlap(left, right) == Range(left.cols) \cap {right.cols[k] : k \in RightKeep(right)}
LeftLabels(left, right) ==
  [i \in 1..Len(left.cols) |->
     IF left.cols[i] \in Overlap(left, right) THEN left.cols[i] \o SuffixX ELSE left.cols[i]]
RightLabels(left, right) ==
  LET rc == Pick(right.cols, RightKeep(right))
  IN  [i \in 1..Len(rc) |-> IF rc[i] \in Overlap(left, right) THEN rc[i] \o SuffixY ELSE rc[i]]

\* MergeError: the suffixes produce a label that is already a column
SuffixClash(left, right) ==
  LET ll == LeftLabels(left, right)
  IN  \E a, b \in 1..Len(ll) : a < b /\ ll[a] = ll[b] /\ left.cols[a] # left.cols[b]

\* variant: how="left", every left row kept, unmatched ones padded with NaN
LeftRows(left, right) ==
  LET lt == ColIndex(left.cols, TimeName)
      rt == ColIndex(right.cols, TimeName)
      match(i) == {k \in 1..Len(right.rows) : right.rows[k][rt] = left.rows[i][lt]}
      pad == [q \in 1..Cardinality(RightKeep(right)) |-> NaN]
      joined(i) == IF match(i) = {} THEN <<left.rows[i] \o pad>>
                   ELSE LET rr == Pick(right.rows, match(i))
                        IN  [q \in 1..Len(rr) |-> left.rows[i] \o Pick(rr[q], RightKeep(right))]
      F[i \in 0..Len(left.rows)] == IF i = 0 THEN <<>> ELSE F[i-1] \o joined(i)
  IN  F[Len(left.rows)]

\* the rows of an inner join on Time, in the order of the left rows
InnerRows(left, right) ==
  LET lt == ColIndex(left.cols, TimeName)
      rt == ColIndex(right.cols, TimeName)
      match(i) == {k \in 1..Len(right.rows) : right.rows[k][rt] = left.rows[i][lt]}
      joined(i) == LET rr == Pick(right.rows, match(i))
                   IN  [q \in 1..Len(rr) |-> left.rows[i] \o Pick(rr[q], RightKeep(right))]
      F[i \in 0..Len(left.rows)] == IF i = 0 THEN <<>> ELSE F[i-1] \o joined(i)
  IN  F[Len(left.rows)]

\* merged.merge(df, on="Time", how="inner")
Merge(left, right) ==
  Frame(LeftLabels(left, right) \o RightLabels(left, right), InnerRows(left, right))

(* -------------------------- continuity check -------------------------- *)
Min(S) == CHOOSE x \in S : \A y \in S : x <= y
Max(S) == CHOOSE x \in S : \A y \in S : x >= y

\* variant: the end of the range left out
DateRangeOpen(start, end) ==
  LET first == IF start % DaySlots = 0 THEN start \div DaySlots ELSE start \div DaySlots + 1
      last  == (end - 1) \div DaySlots
  IN  IF last < first THEN <<>>
      ELSE [i \in 1..(last - first + 1) |-> DaySlots * (first + i - 1)]

\* pd.date_range(start, end, freq="MS"): the month starts in [start, end]
DateRangeMS(start, end) ==
  LET first == IF start % DaySlots = 0 THEN start \div DaySlots ELSE start \div DaySlots + 1
      last  == end \div DaySlots
  IN  IF last < first THEN <<>>
      ELSE [i \in 1..(last - first + 1) |-> DaySlots * (first + i - 1)]

TimeValues(df) == [i \in 1..Len(df.rows) |-> df.rows[i][ColIndex(df.cols, TimeName)].v]

\* len(expected) != len(merged) or not (merged["Time"].values == expected.values).all()
NotMonthly(df, expected) ==
  \/ Len(expected) # Len(df.rows)
  \/ \E i \in 1..Len(expected) : TimeValues(df)[i] # expected[i]

\* expected.difference(merged["Time"]), ascending
Difference(expected, df) ==
  Pick(expected, {i \in 1..Len(expected) : expected[i] \notin Range(TimeValues(df))})

\* missing[:10]
FirstRows(s, m) == SubSeq(s, 1, IF Len(s) < m THEN Len(s) ELSE m)

(* -------------------------------- melt -------------------------------- *)
\* merged.melt(id_vars="Time", var_name="Trend", value_name="Interest"):
\* one block of rows per value column, in column order, each block in row order
ValueIdx(df) ==
  LET all == [i \in 1..Len(df.cols) |-> i]
  IN  Pick(all, {i \in 1..Len(df.cols) : df.cols[i] # TimeName})

\* variant: one block of rows per merged row, the columns inside it
MeltRowMajor(df) ==
  LET t == ColIndex(df.cols, TimeName)
      vi == ValueIdx(df)
      C == Len(vi)
  IN  Frame(<<TimeName, TrendName, InterestName>>,
            [q \in 1..(C * Len(df.rows)) |->
               LET r == ((q - 1) \div C) + 1
                   c == vi[((q - 1) % C) + 1]
               IN  <<df.rows[r][t], df.cols[c], df.rows[r][c]>>])

\* variant: rows whose value is missing left out of the long table
MeltDropNa(df) ==
  LET t == ColIndex(df.cols, TimeName)
      vi == ValueIdx(df)
      R == Len(df.rows)
      all == [q \in 1..(Len(vi) * R) |->
                <<df.rows[((q - 1) % R) + 1][t], df.cols[vi[((q - 1) \div R) + 1]],
                  df.rows[((q - 1) % R) + 1][vi[((q - 1) \div R) + 1]]>>]
  IN  Frame(<<TimeName, TrendName, InterestName>>,
            Pick(all, {q \in 1..Len(all) : all[q][3].k # "nan"}))

Melt(df) ==
  LET t == ColIndex(df.cols, TimeName)
      vi == ValueIdx(df)
      R == Len(df.rows)
  IN  Frame(<<TimeName, TrendName, InterestName>>,
            [q \in 1..(Len(vi) * R) |->
               LET c == vi[((q - 1) \div R) + 1]
                   r == ((q - 1) % R) + 1
               IN  <<df.rows[r][t], df.cols[c], df.rows[r][c]>>])

(* --------------------------- the whole script ------------------------- *)
D(m) == Date(m, 1)

fA  == Layout(<<hTime, hA>>, << <<D(0), Num(1)>>, <<D(1), Num(2)>>, <<D(2), Num(3)>> >>)
fB  == Layout(<<hTime, hB>>, << <<D(1), Num(10)>>, <<D(2), Num(20)>>, <<D(3), Num(30)>> >>)
fN  == Layout(<<hTime, hN>>, << <<D(0), Num(0)>>, <<D(1), Text>>, <<D(2), Num(0)>>, <<D(3), Num(9)>> >>)
fAB == Layout(<<hTime, hTwoWords>>, << <<D(2), Num(5)>>, <<D(0), Num(6)>>, <<Empty, Num(8)>>, <<D(1), Num(7)>> >>)
fE  == Layout(<<hTime, hE>>, << <<D(2), Num(4)>>, <<D(0), Num(5)>>, <<D(2), Num(6)>> >>)
fA2 == Layout(<<hAPad, hTimePad>>, << <<D(1), Num(4)>>, <<D(3), Text>> >>)
fI  == Layout(<<hTime, hInterest>>, << <<D(0), Num(0)>>, <<D(1), Num(0)>>, <<D(2), Num(1)>> >>)
fNoTime  == Layout(<<hA, hB>>, << <<D(0), Num(1)>> >>)
fTwoVals == Layout(<<hTime, hA, hB>>, << <<D(0), Num(1)>> >>)
fBadTime == Layout(<<hTime, hA>>, << <<D(0), Num(1)>>, <<Text, Num(2)>> >>)
fLowTime == Layout(<<hTime, hLowTime>>, << <<D(0), Num(1)>> >>)

RunFiles == {fA, fB, fN, fAB, fE, fA2, fI, fNoTime, fTwoVals, fBadTime, fLowTime}

Init ==
  /\ pc = "glob" /\ n = 0 /\ dfs = <<>> /\ merged = EmptyFrame /\ j = 0
  /\ warned = FALSE /\ missing = <<>> /\ shown = <<>> /\ ellipsis = FALSE
  /\ out_wide = "absent" /\ long_df = EmptyFrame /\ out_long = "absent"
  /\ error = "" /\ raw = NoFile

Abort(e) == pc' = "aborted" /\ error' = e

\* files = list(DATA_DIR.glob("time_series_*.csv"))
Glob ==
  /\ pc = "glob"
  /\ \E k \in 0..MaxFiles : n' = k
  /\ pc' = "count"
  /\ UNCHANGED <<dfs, merged, j, warned, missing, shown, ellipsis, out_wide, long_df, out_long, error, raw>>

\* if len(files) < 4: raise FileNotFoundError (the second test repeats the first)
CountCheck ==
  /\ pc = "count"
  /\ IF n < MinFiles THEN Abort("FileNotFoundError") ELSE pc' = "load" /\ error' = error
  /\ UNCHANGED <<n, dfs, merged, j, warned, missing, shown, ellipsis, out_wide, long_df, out_long, raw>>

\* dfs = [load_trends_csv(f) for f in files], one file per step
LoadFile ==
  /\ pc = "load"
  /\ \E f \in RunFiles :
       LET r == load_trends_csv(f)
       IN  IF r.ok
           THEN /\ dfs' = Append(dfs, r.df)
                /\ pc' = IF Len(dfs) + 1 = n THEN "merge_init" ELSE "load"
                /\ error' = error
           ELSE /\ dfs' = dfs
                /\ Abort(r.err)
  /\ UNCHANGED <<n, merged, j, warned, missing, shown, ellipsis, out_wide, long_df, out_long, raw>>

\* merged = dfs[0]
MergeInit ==
  /\ pc = "merge_init"
  /\ merged' = dfs[1]
  /\ j' = 2
  /\ pc' = "merge"
  /\ UNCHANGED <<n, dfs, warned, missing, shown, ellipsis, out_wide, long_df, out_long, error, raw>>

\* for df in dfs[1:]: merged = merged.merge(df, on="Time", how="inner")
MergeStep ==
  /\ pc = "merge"
  /\ IF j > Len(dfs)
     THEN pc' = "sort" /\ UNCHANGED <<merged, j, error>>
     ELSE IF SuffixClash(merged, dfs[j])
          THEN Abort("MergeError") /\ UNCHANGED <<merged, j>>
          ELSE /\ merged' = Merge(merged, dfs[j])
               /\ j' = j + 1
               /\ UNCHANGED <<pc, error>>
  /\ UNCHANGED <<n, dfs, warned, missing, shown, ellipsis, out_wide, long_df, out_long, raw>>

\* merged = merged.sort_values("Time").reset_index(drop=True)
SortMerged ==
  /\ pc = "sort"
  /\ merged' = SortValuesTime(merged)
  /\ pc' = "check"
  /\ UNCHANGED <<n, dfs, j, warned, missing, shown, ellipsis, out_wide, long_df, out_long, error, raw>>

\* lines 79-85; date_range raises on the NaT bounds of an empty table
ContinuityCheck ==
  /\ pc = "check"
  /\ IF merged.rows = <<>>
     THEN Abort("ValueError: Neither start nor end can be NaT")
          /\ UNCHANGED <<warned, missing, shown, ellipsis>>
     ELSE LET expected == DateRangeMS(Min(Range(TimeValues(merged))), Max(Range(TimeValues(merged))))
              w == NotMonthly(merged, expected)
              mis == IF w THEN Difference(expected, merged) ELSE <<>>
          IN  /\ warned' = w
              /\ missing' = mis
              /\ shown' = FirstRows(mis, MissingShown)
              /\ ellipsis' = (Len(mis) > MissingShown)
              /\ pc' = "write_wide"
              /\ error' = error
  /\ UNCHANGED <<n, dfs, merged, j, out_wide, long_df, out_long, raw>>

\* merged.to_csv(out_wide, index=False); the write may fail
WriteWide ==
  /\ pc = "write_wide"
  /\ \E io \in BOOLEAN :
       IF io THEN out_wide' = "written" /\ pc' = "melt" /\ error' = error
       ELSE out_wide' = out_wide /\ Abort("OSError")
  /\ UNCHANGED <<n, dfs, merged, j, warned, missing, shown, ellipsis, long_df, out_long, raw>>

\* long_df = merged.melt(...); melt raises when a column is called "Interest"
MeltStep ==
  /\ pc = "melt"
  /\ IF InterestName \in Range(merged.cols)
     THEN Abort("ValueError: value_name cannot match a column") /\ long_df' = long_df
     ELSE long_df' = Melt(merged) /\ pc' = "write_long" /\ error' = error
  /\ UNCHANGED <<n, dfs, merged, j, warned, missing, shown, ellipsis, out_wide, out_long, raw>>

\* long_df.to_csv(out_long, index=False); the write may fail
WriteLong ==
  /\ pc = "write_long"
  /\ \E io \in BOOLEAN :
       IF io THEN out_long' = "written" /\ pc' = "report" /\ error' = error
       ELSE out_long' = out_long /\ Abort("OSError")
  /\ UNCHANGED <<n, dfs, merged, j, warned, missing, shown, ellipsis, out_wide, long_df, raw>>

\* lines 97-122: the wide file is read back, the zero shares printed, the chart shown
Report ==
  /\ pc = "report"
  /\ pc' = "done"
  /\ UNCHANGED <<n, dfs, merged, j, warned, missing, shown, ellipsis, out_wide, long_df, out_long, error, raw>>

Next ==
  \/ Glob \/ CountCheck \/ LoadFile \/ MergeInit \/ MergeStep \/ SortMerged
  \/ ContinuityCheck \/ WriteWide \/ MeltStep \/ WriteLong \/ Report

Spec == Init /\ [][Next]_vars

(* ---------- the script from the continuity check on, wider data -------- *)
SortedSeq(S) == [i \in 1..Cardinality(S) |-> CHOOSE x \in S : Cardinality({y \in S : y < x}) = i - 1]

\* lines 70-75 in one piece: the fold of Merge over dfs, then the sort
MergeAll(fs) ==
  LET F[i \in 1..Len(fs)] == IF i = 1 THEN fs[1] ELSE Merge(F[i-1], fs[i])
  IN  SortValuesTime(F[Len(fs)])

nA == <<"A">>
nB == <<"B">>
nE == <<"E">>
nN == <<"N">>

\* a cleaned series: Time and one value column, Time first unless swapped
Series(name, times, vals, swapped) ==
  Frame(IF swapped THEN <<name, TimeName>> ELSE <<TimeName, name>>,
        [r \in 1..Len(times) |->
           IF swapped THEN <<vals[r], Cell("ts", times[r])>>
                      ELSE <<Cell("ts", times[r]), vals[r]>>])

TailNames == { <<nA, nB, nE, nN>>, <<nA, nA, nB, nE>>, <<nA, InterestName, nB, nE>> }
TailValues == {Num(0), NaN}

\* four series on the same run of consecutive months; every value of the
\* first three is free, the fourth holds its row number
TailValued ==
  UNION { { [i \in 1..MinFiles |->
               Series(nm[i], [r \in 1..R |-> DaySlots * (r - 1)],
                      [r \in 1..R |-> IF i < MinFiles THEN v[r, i] ELSE Num(r)], sw /\ i = 1)] :
              nm \in TailNames, sw \in BOOLEAN,
              v \in [(1..R) \X (1..(MinFiles - 1)) -> TailValues] } : R \in 1..TailRows }

\* four series on the same dates, dates up to thirteen months apart
TailDates == {0, DaySlots, DaySlots + 14, 2 * DaySlots, 11 * DaySlots, 12 * DaySlots}
TailDated ==
  { [i \in 1..MinFiles |->
       Series(<<nA, nB, nE, nN>>[i], SortedSeq(S), [r \in 1..Cardinality(S) |-> Num(i)], FALSE)] :
      S \in (SUBSET TailDates) \ {{}} }

InitTail ==
  /\ dfs \in TailValued \cup TailDated
  /\ merged = MergeAll(dfs)
  /\ pc = "check" /\ n = MinFiles /\ j = MinFiles + 1
  /\ warned = FALSE /\ missing = <<>> /\ shown = <<>> /\ ellipsis = FALSE
  /\ out_wide = "absent" /\ long_df = EmptyFrame /\ out_long = "absent"
  /\ error = "" /\ raw = NoFile

NextTail == ContinuityCheck \/ WriteWide \/ MeltStep \/ WriteLong \/ Report
SpecTail == InitTail /\ [][NextTail]_vars

(* =============================== claims =============================== *)
PostSort == {"check", "write_wide", "melt", "write_long", "report", "done"}
Times(df) == Range(TimeValues(df))
Intersection(fs) == {t \in Times(fs[1]) : \A i \in 1..Len(fs) : t \in Times(fs[i])}
NameOf(df) == value_cols(df)[1]

\* the file handed to load_trends_csv: its stripped headers and the places of
\* its Time and value columns when it has one of each
RawCols == [i \in 1..Len(raw.hdr) |-> Strip(raw.hdr[i])]
HeaderValid ==
  /\ Len(RawCols) = 2
  /\ Cardinality(Positions(RawCols, TimeName)) = 1
  /\ \A i \in 1..2 : RawCols[i] # TimeName => Title(JoinSplit(RawCols[i])) # TimeName
RawT == ColIndex(RawCols, TimeName)
RawV == 3 - RawT
RawDated == {i \in 1..Len(raw.rows) : raw.rows[i][RawT].k = "date"}
RawStamp(i) == ToDatetime(raw.rows[i][RawT]).v
OutT == ColIndex(dfs[1].cols, TimeName)
OutV == 3 - OutT
OutAt(t) == {q \in 1..Len(dfs[1].rows) : dfs[1].rows[q][OutT] = Cell("ts", t)}
Coerced(c) == IF c.k = "num" THEN Cell("num", c.v) ELSE Cell("nan", 0)

\* C1: once the joins and the sort are done, the Time column of merged is the
\* ascending duplicate-free listing of the timestamps present in every loaded
\* series, so merged has no more rows than any of them.
C1_MergeIsIntersection ==
  pc \in PostSort =>
    /\ TimeValues(merged) = SortedSeq(Intersection(dfs))
    /\ \A i \in 1..Len(dfs) : Len(merged.rows) <= Len(dfs[i].rows)

C1_Witness ==
  /\ pc = "check"
  /\ Len(merged.rows) >= 2
  /\ \E i \in 1..Len(dfs) : Len(dfs[i].rows) > Len(merged.rows)
  /\ \E i, k \in 1..Len(dfs) : Times(dfs[i]) # Times(dfs[k])

\* C2: when load_trends_csv returns, every row has a timestamp, timestamps are
\* strictly ascending, and of the input rows sharing a timestamp exactly one is
\* kept; no other timestamp appears.
C2_LoadSortedUnique ==
  pc = "returned" =>
    LET out == dfs[1]
    IN  /\ \A q \in 1..Len(out.rows) : out.rows[q][OutT].k = "ts"
        /\ \A q \in 1..(Len(out.rows) - 1) : out.rows[q][OutT].v < out.rows[q+1][OutT].v
        /\ \A i \in RawDated :
             /\ Cardinality(OutAt(RawStamp(i))) = 1
             /\ \A q \in OutAt(RawStamp(i)) :
                  \E k \in RawDated : /\ RawStamp(k) = RawStamp(i)
                                      /\ out.rows[q][OutV] = Coerced(raw.rows[k][RawV])
        /\ \A q \in 1..Len(out.rows) : \E i \in RawDated : RawStamp(i) = out.rows[q][OutT].v

C2_Witness ==
  /\ pc = "returned"
  /\ \E i, k \in RawDated : i < k /\ RawStamp(i) = RawStamp(k)
  /\ \E i, k \in RawDated : i < k /\ RawStamp(i) > RawStamp(k)
  /\ Len(dfs[1].rows) = 2

\* C3: whenever the run has aborted, neither output file has been written.
C3_NoPartialOutput ==
  pc = "aborted" => (out_wide = "absent" /\ out_long = "absent")

\* C4: a run whose joins leave an empty table does not abort on that account:
\* after an empty merge only a failed file write can abort it.
C4_EmptyMergeNotAnError ==
  (pc = "aborted" /\ n >= MinFiles /\ Len(dfs) = n /\ j > n /\ merged.rows = <<>>)
    => error = "OSError"

\* C5: in a file with a well-formed header, a Time entry that does not parse is
\* not fatal: the call returns, and every timestamp that parses is in the result.
C5_BadTimeNotFatal ==
  (pc # "call" /\ HeaderValid) =>
    /\ pc = "returned"
    /\ \A q \in 1..Len(dfs[1].rows) : dfs[1].rows[q][OutT].k = "ts"
    /\ \A i \in RawDated : OutAt(RawStamp(i)) # {}

\* C6: a value entry that is not numeric never makes load_trends_csv raise, and
\* a row whose timestamp parses and occurs once in the file is in the result,
\* with its number when the entry is numeric and with a missing value otherwise.
C6_ValueCoercion ==
  (pc # "call" /\ HeaderValid /\ \A i \in 1..Len(raw.rows) : raw.rows[i][RawT].k # "text") =>
    /\ pc = "returned"
    /\ \A i \in RawDated :
         (\A k \in RawDated : RawStamp(k) = RawStamp(i) => k = i) =>
           \E q \in OutAt(RawStamp(i)) : dfs[1].rows[q][OutV] = Coerced(raw.rows[i][RawV])

C6_Witness ==
  /\ pc = "returned"
  /\ \E i \in RawDated :
       /\ raw.rows[i][RawV].k = "text"
       /\ \A k \in RawDated : RawStamp(k) = RawStamp(i) => k = i
       /\ \E q \in OutAt(RawStamp(i)) : dfs[1].rows[q][OutV] = NaN
  /\ \E i \in RawDated : raw.rows[i][RawV].k = "num"

\* C7: the merged table's columns are Time followed by the clean name of each
\* loaded series, in the order the series were merged.
C7_ColumnsAreNames ==
  pc \in PostSort =>
    merged.cols = <<TimeName>> \o [i \in 1..Len(dfs) |-> NameOf(dfs[i])]

\* C8: on a non-empty merged table the check warns exactly when the timestamps
\* are not one month start per calendar month from the first to the last; then
\* the missing months are the month starts between the first and the last
\* timestamp that are not in the table, the first ten are shown, and the
\* ellipsis is shown exactly when more than ten are missing.
MonthStarts(lo, hi) == {x \in lo..hi : x % DaySlots = 0}
Monthly(ts) ==
  /\ \A i \in 1..Len(ts) : ts[i] % DaySlots = 0
  /\ \A i \in 1..(Len(ts) - 1) : ts[i+1] \div DaySlots = (ts[i] \div DaySlots) + 1
Checked == pc \in {"write_wide", "melt", "write_long", "report", "done"} \/ (pc = "aborted" /\ merged.rows # <<>>)
C8_ContinuityWarning ==
  (Checked /\ merged.rows # <<>>) =>
    LET ts == TimeValues(merged)
        gone == MonthStarts(ts[1], ts[Len(ts)]) \ Range(ts)
    IN  /\ warned <=> ~Monthly(ts)
        /\ missing = IF warned THEN SortedSeq(gone) ELSE <<>>
        /\ Len(shown) = (IF Len(missing) > MissingShown THEN MissingShown ELSE Len(missing))
        /\ \A i \in 1..Len(shown) : shown[i] = missing[i]
        /\ ellipsis <=> Cardinality(gone) > MissingShown /\ warned

C8_Witness ==
  /\ pc = "write_wide"
  /\ warned /\ ellipsis
  /\ Len(missing) = MissingShown + 1
  /\ Len(shown) = MissingShown

\* C9: the long table has rows x metrics rows, one for each (timestamp, metric)
\* pair, and pivoting it on Time and Trend gives back every cell of merged,
\* missing values included.
LongDerived == long_df.cols # <<>>
LongAt(t, c) == {q \in 1..Len(long_df.rows) : long_df.rows[q][1] = t /\ long_df.rows[q][2] = c}
MergedT == ColIndex(merged.cols, TimeName)
C9_MeltRoundTrip ==
  LongDerived =>
    /\ Len(long_df.rows) = Len(merged.rows) * (Len(merged.cols) - 1)
    /\ \A r \in 1..Len(merged.rows) : \A c \in 1..Len(merged.cols) :
         c # MergedT =>
           /\ Cardinality(LongAt(merged.rows[r][MergedT], merged.cols[c])) = 1
           /\ \A q \in LongAt(merged.rows[r][MergedT], merged.cols[c]) :
                long_df.rows[q][3] = merged.rows[r][c]
    /\ \A q \in 1..Len(long_df.rows) :
         \E r \in 1..Len(merged.rows) : \E c \in 1..Len(merged.cols) :
           c # MergedT /\ long_df.rows[q][1] = merged.rows[r][MergedT]
                       /\ long_df.rows[q][2] = merged.cols[c]

C9_Witness ==
  /\ pc = "write_long"
  /\ Len(merged.rows) >= 2
  /\ \E q \in 1..Len(long_df.rows) : long_df.rows[q][3] = NaN
  /\ \E q \in 1..Len(long_df.rows) : long_df.rows[q][3] = Num(0)

\* C10 as stated: the long table runs through the merged rows in order and,
\* within one row, through the metric columns in order.
LongCol(q) == ColIndex(merged.cols, long_df.rows[q][2])
C10_RowMajor ==
  LongDerived =>
    \A p, q \in 1..Len(long_df.rows) :
      p < q => \/ long_df.rows[p][1].v < long_df.rows[q][1].v
               \/ long_df.rows[p][1] = long_df.rows[q][1] /\ LongCol(p) < LongCol(q)

\* C10 amended: the long table runs through the metric columns in merged
\* column order and, within one column, through the merged rows in ascending
\* timestamp order.
C10_ColumnMajor ==
  LongDerived =>
    \A p, q \in 1..Len(long_df.rows) :
      p < q => \/ LongCol(p) < LongCol(q)
               \/ LongCol(p) = LongCol(q) /\ long_df.rows[p][1].v < long_df.rows[q][1].v

C10_Witness ==
  /\ pc = "write_long"
  /\ Len(merged.rows) >= 2
  /\ Len(long_df.rows) = 2 * MinFiles
  /\ long_df.rows[1][2] = long_df.rows[2][2]
  /\ long_df.rows[1][1] # long_df.rows[2][1]

====
